---- MODULE Spec2Model ----
(***************************************************************************)
(* A model of twiggy/lib/converter.py: the Converter record and the        *)
(* ConversionTable list with its constructor, add, delete, get, getAll,    *)
(* copy and convert.                                                       *)
(*                                                                         *)
(* Tables are objects of a heap, so that two references may or may not     *)
(* name the same list.  The caller-supplied functions convertValue and     *)
(* convertItem are drawn from small sets of named functions.               *)
(***************************************************************************)
EXTENDS Integers, Sequences, FiniteSets, TLC

\* ------------------------------------------------------------------ bounds
MaxKey == 2
MaxLen == 2

\* The keys a Converter may have.
Keys == 1..MaxKey

\* The keys of an input mapping and of a lookup: every Converter key, and one
\* key that no Converter has.
InputKeys == 1..(MaxKey + 1)

\* The values of an input mapping; the table never looks into a value.
Values == {3, 5}

\* ------------------------------------------------- caller-supplied functions
\* The functions a caller may store in a Converter: a convertValue that
\* returns its argument or doubles it, a convertItem that returns the pair
\* (key, value) or None.
\* The (convertValue, convertItem) pairs of the Converters of the model.
Functions ==
  {[convertValue |-> "ident", convertItem |-> "pair"],
   [convertValue |-> "double", convertItem |-> "pair"],
   [convertValue |-> "double", convertItem |-> "nothing"]}

\* Python's None.
None == [tag |-> "None"]

IsNone(x) == x = None

\* An item (key, value), as genericItem and the "pair" convertItem build it.
Pair(key, value) == [key |-> key, val |-> value]

\* Calling a stored convertValue.
CallValue(f, value) == IF f = "double" THEN 2 * value ELSE value

\* Calling a stored convertItem.
CallItem(f, key, value) == IF f = "nothing" THEN None ELSE Pair(key, value)

\* ------------------------------------------------------------------ Converter
\* Converter.__init__(key, convertValue, convertItem, required)
Converter(key, convertValue, convertItem, required) ==
  [key |-> key, convertValue |-> convertValue,
   convertItem |-> convertItem, required |-> required]

\* The default of the fourth parameter of Converter.__init__.
RequiredDefault == FALSE

\* All Converters over the model's universe.
Converters ==
  {Converter(k, f.convertValue, f.convertItem, rq) :
     k \in Keys, f \in Functions, rq \in BOOLEAN}

\* Sequences over S of length at most n.
SeqUpTo(S, n) == UNION {[1..m -> S] : m \in 0..n}

\* The input mappings: dictionaries from some keys to values.
Mappings == UNION {[S -> Values] : S \in SUBSET InputKeys}

\* ------------------------------------------------------------ list primitives
\* del self[i]
DelAt(self, i) == [j \in 1..(Len(self) - 1) |-> IF j < i THEN self[j] ELSE self[j + 1]]

\* sorted(S) for a set of integer keys: ascending.
RECURSIVE sorted(_)
sorted(S) ==
  IF S = {} THEN <<>>
  ELSE LET m == CHOOSE x \in S : \A y \in S : x <= y
       IN <<m>> \o sorted(S \ {m})

\* ---------------------------------------------------------- get, getAll, add
RECURSIVE getLoop(_, _, _)
getLoop(self, i, key) ==
  IF i > Len(self) THEN None
  ELSE IF self[i].key = key THEN self[i]
  ELSE getLoop(self, i + 1, key)

\* A get that keeps looking and returns the last match.
RECURSIVE getLastLoop(_, _, _, _)
getLastLoop(self, i, key, found) ==
  IF i > Len(self) THEN found
  ELSE getLastLoop(self, i + 1, key, IF self[i].key = key THEN self[i] ELSE found)

getLast(self, key) == getLastLoop(self, 1, key, None)

\* ConversionTable.get
get(self, key) == getLoop(self, 1, key)

RECURSIVE getAllLoop(_, _, _)
getAllLoop(self, i, key) ==
  IF i > Len(self) THEN <<>>
  ELSE (IF self[i].key = key THEN <<self[i]>> ELSE <<>>) \o getAllLoop(self, i + 1, key)

\* ConversionTable.getAll
getAll(self, key) == getAllLoop(self, 1, key)

\* ConversionTable.add
add(self, c) == Append(self, c)

\* ------------------------------------------------------------------- delete
\* The loop of delete: the list iterator and enumerate's counter advance
\* together, one step per iteration, whether or not an element was deleted.
RECURSIVE deleteLoop(_, _, _)
deleteLoop(self, i, key) ==
  IF i > Len(self) THEN self
  ELSE IF self[i].key = key THEN deleteLoop(DelAt(self, i), i + 1, key)
  ELSE deleteLoop(self, i + 1, key)

\* A delete whose del removes the head of the list instead of the match.
RECURSIVE deleteHeadLoop(_, _, _)
deleteHeadLoop(self, i, key) ==
  IF i > Len(self) THEN self
  ELSE IF self[i].key = key THEN deleteHeadLoop(DelAt(self, 1), i + 1, key)
  ELSE deleteHeadLoop(self, i + 1, key)

deleteHead(self, key) == deleteHeadLoop(self, 1, key)

\* ConversionTable.delete
delete(self, key) == deleteLoop(self, 1, key)

\* ------------------------------------------------------------------ convert
\* ConversionTable.genericValue
genericValue(value) == value

\* ConversionTable.genericItem
genericItem(key, value) == Pair(key, value)

\* ConversionTable.aggregate: dict(converteds); a later item with the same
\* key replaces an earlier one.
aggregate(converteds) ==
  [k \in {converteds[i].key : i \in DOMAIN converteds} |->
     converteds[CHOOSE i \in DOMAIN converteds :
                  /\ converteds[i].key = k
                  /\ \A j \in DOMAIN converteds : j > i => converteds[j].key # k].val]

\* converts = set(x.key for x in self)
converts(self) == {self[i].key : i \in DOMAIN self}

\* avail = set(d.iterkeys())
avail(d) == DOMAIN d

\* required = set(x.key for x in self if x.required)
required(self) == {self[i].key : i \in {j \in DOMAIN self : self[j].required}}

\* A check that reports one missing key only.
missingFirst(self, d) ==
  LET m == required(self) \ avail(d)
  IN IF m = {} THEN {} ELSE {CHOOSE x \in m : \A y \in m : x <= y}

\* missing = required - avail
missing(self, d) == required(self) \ avail(d)

\* Every key of d taken as unconverted.
unconvertedAll(self, d) == avail(d)

\* avail - converts
unconverted(self, d) == avail(d) \ converts(self)

\* if item is not None: l.append(item)
appendItem(l, item) == IF IsNone(item) THEN l ELSE Append(l, item)

\* The record of one call of a caller-supplied or generic function: by is
\* the position of the Converter whose function it is, 0 for the generic ones.
Invoked(fn, by, key, arg) == [fn |-> fn, by |-> by, key |-> key, arg |-> arg]

\* A Converter whose convertItem returns None falls back on genericItem.
fireFallback(self, d, i, acc) ==
  LET c == self[i]
      value == CallValue(c.convertValue, d[c.key])
      item == CallItem(c.convertItem, c.key, value)
  IN [l |-> Append(acc.l, IF IsNone(item) THEN genericItem(c.key, value) ELSE item),
      calls |-> acc.calls \o <<Invoked("convertValue", i, c.key, d[c.key]),
                               Invoked("convertItem", i, c.key, value)>>]

\* One Converter applied to its key of d: l and the calls after it.
fire(self, d, i, acc) ==
  LET c == self[i]
      value == CallValue(c.convertValue, d[c.key])
      item == CallItem(c.convertItem, c.key, value)
  IN [l |-> appendItem(acc.l, item),
      calls |-> acc.calls \o <<Invoked("convertValue", i, c.key, d[c.key]),
                               Invoked("convertItem", i, c.key, value)>>]

\* A loop in which only the first Converter of a key fires.
RECURSIVE ruleLoopFirstMatch(_, _, _, _)
ruleLoopFirstMatch(self, d, i, acc) ==
  IF i > Len(self) THEN acc
  ELSE IF self[i].key \in DOMAIN d /\ \A j \in 1..(i - 1) : self[j].key # self[i].key
       THEN ruleLoopFirstMatch(self, d, i + 1, fire(self, d, i, acc))
  ELSE ruleLoopFirstMatch(self, d, i + 1, acc)

\* for c in self: if c.key in d: ...
RECURSIVE ruleLoop(_, _, _, _)
ruleLoop(self, d, i, acc) ==
  IF i > Len(self) THEN acc
  ELSE IF self[i].key \in DOMAIN d THEN ruleLoop(self, d, i + 1, fire(self, d, i, acc))
  ELSE ruleLoop(self, d, i + 1, acc)

\* for key in sorted(avail - converts): ...
RECURSIVE genericLoop(_, _, _, _)
genericLoop(keys, d, j, acc) ==
  IF j > Len(keys) THEN acc
  ELSE LET key == keys[j]
           value == genericValue(d[key])
           item == genericItem(key, value)
       IN genericLoop(keys, d, j + 1,
            [l |-> appendItem(acc.l, item),
             calls |-> acc.calls \o <<Invoked("genericValue", 0, key, d[key]),
                                      Invoked("genericItem", 0, key, value)>>])

\* raise ValueError("Missing fields ..."): nothing was called, nothing returned.
raiseMissing(self, d, selfAfter, dAfter) ==
  [raised |-> TRUE, missing |-> missing(self, d), calls |-> <<>>,
   self |-> selfAfter, d |-> dAfter]

\* The two loops and return self.aggregate(l).
returnAggregate(self, d, selfAfter, dAfter) ==
  LET rules == ruleLoop(self, d, 1, [l |-> <<>>, calls |-> <<>>])
      all == genericLoop(sorted(unconverted(self, d)), d, 1, rules)
  IN [raised |-> FALSE, l |-> all.l, result |-> aggregate(all.l),
      calls |-> all.calls \o <<Invoked("aggregate", 0, 0, 0)>>,
      self |-> selfAfter, d |-> dAfter]

\* A convert that pops from d the keys its Converters take.
convertPopping(self, d) ==
  LET dAfter == [k \in unconverted(self, d) |-> d[k]]
  IN IF missing(self, d) # {} THEN raiseMissing(self, d, self, d)
     ELSE returnAggregate(self, d, self, dAfter)

\* ConversionTable.convert: its outcome, with the table and the mapping as
\* the call leaves them (no statement of convert assigns to either).
convert(self, d) ==
  IF missing(self, d) # {} THEN raiseMissing(self, d, self, d)
  ELSE returnAggregate(self, d, self, d)

\* -------------------------------------------------------------------- state
VARIABLES
  heap,  \* the ConversionTable objects: heap[t] is the list held by object t
  cref,  \* the reference copy() returned, 0 before any copy; the original is 1
  out    \* the last call: its name, arguments, the heap before it, its result

vars == <<heap, cref, out>>

\* All tables over a set of Converters.
TablesOver(S) == SeqUpTo(S, MaxLen)

Tables == TablesOver(Converters)

NoCall == [op |-> "none"]

\* The caller is between two calls.
Idle == out = NoCall

\* The call record of a table operation.
Call(op, t, arg, result) ==
  [op |-> op, self |-> t, arg |-> arg, before |-> heap, result |-> result]

\* T.add(c)
Add(t, c) ==
  /\ Idle
  /\ t \in DOMAIN heap
  /\ Len(heap[t]) < MaxLen
  /\ heap' = [heap EXCEPT ![t] = add(heap[t], c)]
  /\ out' = Call("add", t, c, None)
  /\ UNCHANGED cref

\* T.delete(key)
Delete(t, key) ==
  /\ Idle
  /\ t \in DOMAIN heap
  /\ heap' = [heap EXCEPT ![t] = delete(heap[t], key)]
  /\ out' = Call("delete", t, key, None)
  /\ UNCHANGED cref

\* T.get(key)
Get(t, key) ==
  /\ Idle
  /\ t \in DOMAIN heap
  /\ out' = Call("get", t, key, get(heap[t], key))
  /\ UNCHANGED <<heap, cref>>

\* T.getAll(key)
GetAll(t, key) ==
  /\ Idle
  /\ t \in DOMAIN heap
  /\ out' = Call("getAll", t, key, getAll(heap[t], key))
  /\ UNCHANGED <<heap, cref>>

\* T.convert(d)
Convert(t, d) ==
  /\ Idle
  /\ t \in DOMAIN heap
  /\ LET r == convert(heap[t], d)
     IN /\ heap' = [heap EXCEPT ![t] = r.self]
        /\ out' = Call("convert", t, d, r)
  /\ UNCHANGED cref

\* The caller is done with the result of the last call.
Return ==
  /\ ~Idle
  /\ out' = NoCall
  /\ UNCHANGED <<heap, cref>>

\* One table, as some construction left it.
Init ==
  /\ heap \in {<<tbl>> : tbl \in Tables}
  /\ cref = 0
  /\ out = NoCall

Next ==
  \/ Idle /\ \E c \in Converters : Add(1, c)
  \/ Idle /\ \E k \in InputKeys : Delete(1, k)
  \/ Idle /\ \E k \in InputKeys : Get(1, k)
  \/ Idle /\ \E k \in InputKeys : GetAll(1, k)
  \/ Idle /\ \E d \in Mappings : Convert(1, d)
  \/ Return

Spec == Init /\ [][Next]_vars

\* The table the last call acted on, and what it was before the call.
Self == heap[out.self]
Before == out.before[out.self]

\* The Converters of a table whose key is k / is not k, in table order.
WithKey(tbl, k) == SelectSeq(tbl, LAMBDA c : c.key = k)
WithoutKey(tbl, k) == SelectSeq(tbl, LAMBDA c : c.key # k)

\* C1: after T.delete(k) the table holds no Converter with key k (getAll(k)
\* is empty and get(k) is None), whatever held key k before the call.
C1_DeleteRemovesAll ==
  out.op = "delete" =>
    /\ getAll(Self, out.arg) = <<>>
    /\ IsNone(get(Self, out.arg))

\* C8: getAll(k) returns exactly the Converters with key k, in table order;
\* get(k) returns the first of them, or None when there is none.
C8_GetFirstGetAll ==
  /\ out.op = "getAll" => out.result = WithKey(Self, out.arg)
  /\ out.op = "get" =>
       IF WithKey(Self, out.arg) = <<>> THEN IsNone(out.result)
       ELSE out.result = Head(WithKey(Self, out.arg))

\* A table reached by add and delete calls holds two Converters with the key
\* asked for, and get returned the first of them.
C8_Witness ==
  /\ out.op = "get"
  /\ Len(WithKey(Self, out.arg)) = 2
  /\ Self[1] # Self[2]
  /\ out.result = Self[1]

Converted == out.op = "convert"
Arg == out.arg
Outcome == out.result

\* The keys of the Converters marked required.
RequiredKeys(tbl) == {c.key : c \in {tbl[i] : i \in {j \in DOMAIN tbl : tbl[j].required}}}

\* The names of the functions a conversion may call.
Callbacks == {"convertValue", "convertItem", "genericValue", "genericItem", "aggregate"}

\* C2: when the mapping lacks a required key, convert fails, the error names
\* every required key the mapping lacks and no other, and no callback was
\* called and no result returned.
C2_MissingRequired ==
  (Converted /\ ~(RequiredKeys(Before) \subseteq DOMAIN Arg)) =>
    /\ Outcome.raised
    /\ Outcome.missing = RequiredKeys(Before) \ DOMAIN Arg
    /\ \A p \in DOMAIN Outcome.calls : Outcome.calls[p].fn \notin Callbacks
    /\ "result" \notin DOMAIN Outcome

\* A convert that failed for two missing required keys while the mapping
\* held a key of its own.
C2_Witness ==
  /\ Converted
  /\ Outcome.raised
  /\ Cardinality(Outcome.missing) = 2
  /\ DOMAIN Arg # {}

\* What the Converters of tbl whose key is in d produce, in table order,
\* None included.
Produced(tbl, d) ==
  LET fired == SelectSeq(tbl, LAMBDA c : c.key \in DOMAIN d)
  IN [i \in 1..Len(fired) |->
        CallItem(fired[i].convertItem, fired[i].key,
                 CallValue(fired[i].convertValue, d[fired[i].key]))]

RuleItems(tbl, d) == SelectSeq(Produced(tbl, d), LAMBDA x : x # None)

\* The keys of d that no Converter of tbl has, ascending.
Ascending(S) ==
  [i \in 1..Cardinality(S) |->
     CHOOSE x \in S : Cardinality({y \in S : y < x}) = i - 1]

GenericItems(tbl, d) ==
  LET U == DOMAIN d \ {tbl[i].key : i \in DOMAIN tbl}
      s == Ascending(U)
  IN [i \in 1..Cardinality(U) |-> Pair(s[i], d[s[i]])]

\* The mapping dict() builds from a list of items.
DictOf(l) ==
  [k \in {l[i].key : i \in DOMAIN l} |->
     LET last == CHOOSE i \in DOMAIN l :
                   l[i].key = k /\ \A j \in DOMAIN l : l[j].key = k => j <= i
     IN l[last].val]

\* C3: when the mapping holds every required key, convert returns the
\* aggregate of the items of the matching Converters in table order followed
\* by the generic items of the unmatched keys in ascending key order; a
\* matched key never takes the generic path.
C3_ConvertResult ==
  (Converted /\ RequiredKeys(Before) \subseteq DOMAIN Arg) =>
    /\ ~Outcome.raised
    /\ Outcome.l = RuleItems(Before, Arg) \o GenericItems(Before, Arg)
    /\ Outcome.result = DictOf(Outcome.l)
    /\ \A p \in DOMAIN Outcome.calls :
         Outcome.calls[p].fn \in {"genericValue", "genericItem"} =>
           \A i \in DOMAIN Before : Before[i].key # Outcome.calls[p].key

\* The scenario of the specification: one required doubling Converter for
\* key 1, the mapping {1: 3, 2: 5, 3: 3}; the result is {1: 6, 2: 5, 3: 3},
\* the Converter's item first, then the generic ones by key.
C3_Witness ==
  /\ Converted
  /\ Before = <<Converter(1, "double", "pair", TRUE)>>
  /\ Arg = (1 :> 3) @@ (2 :> 5) @@ (3 :> 3)
  /\ Outcome.l = <<Pair(1, 6), Pair(2, 5), Pair(3, 3)>>
  /\ Outcome.result = (1 :> 6) @@ (2 :> 5) @@ (3 :> 3)

\* C5: convert leaves the table and the mapping as they were, whether it
\* returns or raises.
C5_ConvertFrame ==
  Converted =>
    /\ heap = out.before
    /\ Outcome.self = Before
    /\ Outcome.d = Arg

\* A convert that returned after a Converter took a key of the mapping.
C5_Witness ==
  /\ Converted
  /\ ~Outcome.raised
  /\ Len(Before) = 2
  /\ \E i \in DOMAIN Before : Before[i].key \in DOMAIN Arg
  /\ Outcome.d = Arg

\* The positions of the calls of fn made for the Converter at position i.
CallsOf(fn, i) == {p \in DOMAIN Outcome.calls :
                     Outcome.calls[p].fn = fn /\ Outcome.calls[p].by = i}

\* C6: every Converter whose key is in the mapping fires, in table order,
\* whether or not an earlier Converter has the same key: its convertValue is
\* called once with the raw value of the key, its convertItem once with the
\* value its own convertValue returned, and its item, if any, is in the list.
C6_FanOut ==
  (Converted /\ ~Outcome.raised) =>
    /\ \A i \in DOMAIN Before :
         Before[i].key \in DOMAIN Arg =>
           /\ \E p \in DOMAIN Outcome.calls :
                /\ CallsOf("convertValue", i) = {p}
                /\ CallsOf("convertItem", i) = {p + 1}
                /\ Outcome.calls[p].arg = Arg[Before[i].key]
                /\ Outcome.calls[p + 1].arg
                     = CallValue(Before[i].convertValue, Arg[Before[i].key])
           /\ \A j \in DOMAIN Before :
                (i < j /\ Before[j].key \in DOMAIN Arg) =>
                  \A p \in CallsOf("convertValue", i), q \in CallsOf("convertValue", j) : p < q
    /\ \A k \in DOMAIN Arg :
         Len(SelectSeq(Outcome.l, LAMBDA x : x.key = k))
           = Len(SelectSeq(Before, LAMBDA c : c.key = k /\ c.convertItem = "pair"))
             + (IF \E i \in DOMAIN Before : Before[i].key = k THEN 0 ELSE 1)

\* Two Converters with the same key and different convertValues fired on one
\* raw value and gave two items, in table order.
C6_Witness ==
  /\ Converted
  /\ Before = <<Converter(1, "double", "pair", FALSE), Converter(1, "ident", "pair", FALSE)>>
  /\ Arg = (1 :> 3)
  /\ Outcome.l = <<Pair(1, 6), Pair(1, 3)>>

\* C7 as stated: when a convertItem returns None for a key of the mapping,
\* no item for that key is in the list given to aggregate.
C7_NoItemForKey ==
  (Converted /\ ~Outcome.raised) =>
    \A i \in DOMAIN Before :
      (/\ Before[i].key \in DOMAIN Arg
       /\ IsNone(CallItem(Before[i].convertItem, Before[i].key,
                          CallValue(Before[i].convertValue, Arg[Before[i].key])))) =>
        \A p \in DOMAIN Outcome.l : Outcome.l[p].key # Before[i].key

\* C7 amended: a Converter whose convertItem returns None contributes no item:
\* None is never in the list, the list holds one item per Converter that
\* returned one, and a key has no item when every Converter of that key
\* returned None.
C7_NoneDropped ==
  (Converted /\ ~Outcome.raised) =>
    /\ \A p \in DOMAIN Outcome.l : ~IsNone(Outcome.l[p])
    /\ Len(Outcome.l) = Len(RuleItems(Before, Arg)) + Len(GenericItems(Before, Arg))
    /\ \A k \in DOMAIN Arg :
         (/\ \E i \in DOMAIN Before : Before[i].key = k
          /\ \A i \in DOMAIN Before :
               Before[i].key = k =>
                 IsNone(CallItem(Before[i].convertItem, k,
                                 CallValue(Before[i].convertValue, Arg[k])))) =>
           \A p \in DOMAIN Outcome.l : Outcome.l[p].key # k

\* A Converter returned None for a key of the mapping, another kept its item.
C7_Witness ==
  /\ Converted
  /\ ~Outcome.raised
  /\ Len(Before) = 2
  /\ Before[1].convertItem = "nothing"
  /\ Before[1].key \in DOMAIN Arg
  /\ Before[2].key # Before[1].key
  /\ Len(Outcome.l) = Cardinality(DOMAIN Arg) - 1

\* ------------------------------------------------------------- construction
\* What a caller may put in the sequence given to ConversionTable: a
\* Converter, a tuple or a list of positional arguments, a dict of keyword
\* arguments, or something else.
Element(shape, value) == [shape |-> shape, value |-> value]

\* The positional arguments (p1, ..., pn) of a tuple or list: len is n.

\* isinstance(i, Converter)
isConverter(i) == i.shape = "Converter"

\* isinstance(i, (tuple, list)) and len(i) in (3, 4)
isArgs(i) == i.shape \in {"tuple", "list"} /\ i.value.len \in {3, 4}

\* isinstance(i, dict)
isKwargs(i) == i.shape = "dict"

\* Converter(*i) for three or four positional arguments.
fromArgs(v) ==
  Converter(v.p1, v.p2, v.p3, IF v.len = 4 THEN v.p4 ELSE RequiredDefault)

\* Converter(**i) for the keyword arguments of a Converter.
fromKwargs(v) ==
  Converter(v.key, v.convertValue, v.convertItem,
            IF "required" \in DOMAIN v THEN v.required ELSE RequiredDefault)

\* A constructor that passes over an element it cannot use.
RECURSIVE initSkipping(_, _, _)
initSkipping(seq, j, self) ==
  IF j > Len(seq) THEN [raised |-> FALSE, self |-> self]
  ELSE LET i == seq[j]
       IN IF isConverter(i) THEN initSkipping(seq, j + 1, Append(self, i.value))
          ELSE IF isArgs(i) THEN initSkipping(seq, j + 1, add(self, fromArgs(i.value)))
          ELSE IF isKwargs(i) THEN initSkipping(seq, j + 1, add(self, fromKwargs(i.value)))
          ELSE initSkipping(seq, j + 1, self)

ConversionTableSkipping(seq) == initSkipping(seq, 1, <<>>)

\* The loop of ConversionTable.__init__; the ValueError carries the element.
RECURSIVE initLoop(_, _, _)
initLoop(seq, j, self) ==
  IF j > Len(seq) THEN [raised |-> FALSE, self |-> self]
  ELSE LET i == seq[j]
       IN IF isConverter(i) THEN initLoop(seq, j + 1, Append(self, i.value))
          ELSE IF isArgs(i) THEN initLoop(seq, j + 1, add(self, fromArgs(i.value)))
          ELSE IF isKwargs(i) THEN initLoop(seq, j + 1, add(self, fromKwargs(i.value)))
          ELSE [raised |-> TRUE, bad |-> i]

\* ConversionTable.__init__
ConversionTable(seq) == initLoop(seq, 1, <<>>)

\* The Converters the construction and the copy draw from: one per key, the
\* first required and doubling, the second dropping its item.
SomeConverters ==
  {Converter(k, IF k \in {1, 2} THEN "double" ELSE "ident",
             IF k = 2 THEN "nothing" ELSE "pair", k = 1) : k \in Keys}

\* Positional arguments of length 2 to 5 and keyword arguments, with and
\* without required.
ArgLists ==
  UNION {{[len |-> 2, p1 |-> c.key, p2 |-> c.convertValue],
          [len |-> 3, p1 |-> c.key, p2 |-> c.convertValue, p3 |-> c.convertItem],
          [len |-> 4, p1 |-> c.key, p2 |-> c.convertValue, p3 |-> c.convertItem,
           p4 |-> TRUE],
          [len |-> 4, p1 |-> c.key, p2 |-> c.convertValue, p3 |-> c.convertItem,
           p4 |-> FALSE],
          [len |-> 5, p1 |-> c.key, p2 |-> c.convertValue, p3 |-> c.convertItem,
           p4 |-> TRUE, p5 |-> 0]} : c \in SomeConverters}

KwargDicts ==
  UNION {{[key |-> c.key, convertValue |-> c.convertValue, convertItem |-> c.convertItem],
          [key |-> c.key, convertValue |-> c.convertValue, convertItem |-> c.convertItem,
           required |-> TRUE]} : c \in SomeConverters}

Elements ==
  {Element("Converter", c) : c \in SomeConverters}
    \cup {Element(sh, v) : sh \in {"tuple", "list"}, v \in ArgLists}
    \cup {Element("dict", v) : v \in KwargDicts}
    \cup {Element("scalar", [number |-> 7])}

\* ConversionTable(seq)
Construct(seq) ==
  /\ heap = <<>>
  /\ Idle
  /\ LET r == ConversionTable(seq)
     IN /\ heap' = IF r.raised THEN heap ELSE <<r.self>>
        /\ out' = Call("init", 0, seq, r)
  /\ UNCHANGED cref

\* Before any table is constructed.
InitNoTable ==
  /\ heap = <<>>
  /\ cref = 0
  /\ out = NoCall

NextInit ==
  \/ heap = <<>> /\ Idle /\ \E seq \in SeqUpTo(Elements, MaxLen) : Construct(seq)
  \/ Return

SpecInit == InitNoTable /\ [][NextInit]_vars

\* The shapes the constructor takes, and the Converter each stands for.
Valid(e) ==
  \/ e.shape = "Converter"
  \/ e.shape \in {"tuple", "list"} /\ e.value.len \in {3, 4}
  \/ e.shape = "dict"

Meant(e) ==
  IF e.shape = "Converter" THEN e.value
  ELSE IF e.shape = "dict"
    THEN [key |-> e.value.key, convertValue |-> e.value.convertValue,
          convertItem |-> e.value.convertItem,
          required |-> ("required" \in DOMAIN e.value /\ e.value.required)]
  ELSE [key |-> e.value.p1, convertValue |-> e.value.p2, convertItem |-> e.value.p3,
        required |-> (e.value.len = 4 /\ e.value.p4)]

C9_WitnessBad ==
  /\ out.op = "init"
  /\ Outcome.raised
  /\ Len(Arg) = 2
  /\ Outcome.bad = Arg[2]
  /\ Arg[2].shape = "tuple" /\ Arg[2].value.len = 5

\* --------------------------------------------------------------------- copy
\* copy.deepcopy of a table: a new list holding copies of the Converters.
deepcopy(self) == [i \in 1..Len(self) |-> self[i]]

\* A copy that returns the table itself.
copySelf(h, t) == [heap |-> h, ref |-> t]

\* ConversionTable.copy: a new object on the heap, and the reference to it.
copy(h, t) == [heap |-> Append(h, deepcopy(h[t])), ref |-> Len(h) + 1]

\* C = T.copy()
Copy(t) ==
  /\ Idle
  /\ t \in DOMAIN heap
  /\ cref = 0
  /\ LET r == copy(heap, t)
     IN /\ heap' = r.heap
        /\ cref' = r.ref
        /\ out' = Call("copy", t, None, r.ref)

\* A table T, to be copied.
InitCopy ==
  /\ heap \in {<<tbl>> : tbl \in TablesOver(SomeConverters)}
  /\ cref = 0
  /\ out = NoCall

NextCopy ==
  \/ Copy(1)
  \/ Idle /\ \E t \in DOMAIN heap, c \in SomeConverters : Add(t, c)
  \/ Idle /\ \E t \in DOMAIN heap, k \in InputKeys : Delete(t, k)
  \/ Idle /\ \E t \in DOMAIN heap, d \in Mappings : Convert(t, d)
  \/ Return

SpecCopy == InitCopy /\ [][NextCopy]_vars

\* What the caller sees of a conversion.
Seen(r) == IF r.raised THEN [raised |-> TRUE, missing |-> r.missing]
           ELSE [raised |-> FALSE, result |-> r.result]

\* C4: the copy holds the Converters of the table in the same order and
\* converts every mapping as the table does; an add or a delete on the copy
\* leaves the table as it was, and one on the table leaves the copy.
C4_CopyIndependent ==
  /\ out.op = "copy" =>
       /\ cref \in DOMAIN heap
       /\ heap[1] = out.before[1]
       /\ heap[cref] = out.before[1]
       /\ \A d \in Mappings : Seen(convert(heap[cref], d)) = Seen(convert(heap[1], d))
  /\ (cref # 0 /\ out.op \in {"add", "delete", "convert"}) =>
       /\ out.self = cref => heap[1] = out.before[1]
       /\ out.self = 1 => heap[cref] = out.before[cref]

\* A delete on the copy removed a Converter that the table still holds.
C4_Witness ==
  /\ out.op = "delete"
  /\ cref = 2
  /\ out.self = cref
  /\ Len(heap[2]) < Len(out.before[2])
  /\ heap[1] = out.before[1]
  /\ heap[1] # heap[2]

\* An add on the table after the copy was taken.
C4_WitnessOriginal ==
  /\ out.op = "add"
  /\ cref = 2
  /\ out.self = 1
  /\ heap[2] = out.before[2]
  /\ heap[1] # heap[2]

====
